---------------------------- MODULE Spec2Model ----------------------------
(* Quantum-Multicast: the bipartite network builder                        *)
(* (utils/bipartite_network.py), the node protocol                         *)
(* (protocols/bipartiteprotocol.py) and the statistics generator           *)
(* (utils/functions.py), as one state machine with three specifications:   *)
(*   SpecNet   - create_bipartite_network on every small graph             *)
(*   SpecProto - BipartiteProtocol.run on a built network, with the        *)
(*               statistics generator resumed once per SUCCESS signal      *)
(*   Spec      - fidelity_from_node resumed round after round on memory    *)
(*               contents and clock readings supplied by the simulation    *)
EXTENDS Integers, Sequences, FiniteSets, TLC

(***************************************************************************)
(* Bounds of the model and constants of the program                        *)
(***************************************************************************)
NumNodes == 4

MaxFree == 3

MaxOver == 1

MaxProtoRounds == 2

Budget == 250

Nodes == 1..NumNodes

\* the nodes that have edges in the graphs the builder and the protocol
\* are explored on; the last node is then a node without an edge
NetNodes == NumNodes - 1

Source == 1

None == <<>>

Some(x) == <<x>>

Range(s) == {s[i] : i \in DOMAIN s}

IndexOf(s, x) == CHOOSE i \in DOMAIN s : s[i] = x

\* the sum of s[lo..hi], by halves
RECURSIVE SumRange(_, _, _)
SumRange(s, lo, hi) ==
    IF lo > hi THEN 0
    ELSE IF lo = hi THEN s[lo]
    ELSE LET mid == (lo + hi) \div 2
         IN  SumRange(s, lo, mid) + SumRange(s, mid + 1, hi)

SumTo(s, n) == SumRange(s, 1, n)

SumSeq(s) == SumTo(s, Len(s))

(***************************************************************************)
(* Graph: graph.nodes is Nodes (iterated in ascending order), graph.edges  *)
(* maps a node to its neighbour mapping; a dict keeps insertion order, so  *)
(* the mapping is a duplicate-free sequence of neighbours.                 *)
(***************************************************************************)
InjSeqs ==
    {s \in UNION {[1..k -> 1..(NetNodes - 1)] : k \in 0..(NetNodes - 1)} :
        \A i, j \in DOMAIN s : i # j => s[i] # s[j]}

\* the neighbours of n, named by their rank among the other nodes
NbrSeq(n, s) == [i \in DOMAIN s |-> IF s[i] < n THEN s[i] ELSE s[i] + 1]

AllGraphs ==
    {[n \in Nodes |-> IF n <= NetNodes THEN NbrSeq(n, c[n]) ELSE <<>>] :
        c \in [1..NetNodes -> InjSeqs]}

OutEdges(g, u) == [i \in 1..Len(g[u]) |-> <<u, g[u][i]>>]

(***************************************************************************)
(* Names.  A string is the sequence of its characters.  graph.nodes holds  *)
(* the node identifiers; label gives the identifier of each node as the    *)
(* string str(node_name) the builder names its components with.            *)
(***************************************************************************)
VARIABLE label

Digits == <<"1", "2", "3", "4", "5", "6", "7", "8", "9">>

\* str(n) of an integer identifier
Str(n) == <<Digits[n]>>

\* integer identifiers 1, 2, ...
IntNames == [n \in 1..NumNodes |-> Str(n)]

\* string identifiers "u1", "u2", ...
StrNames == [n \in 1..NumNodes |-> <<"u">> \o Str(n)]

Labelings == {IntNames, StrNames}

OutWord == <<"o", "u", "t">>

\* sub in s
Contains(s, sub) ==
    \E i \in 1..(Len(s) - Len(sub) + 1) : SubSeq(s, i, i + Len(sub) - 1) = sub

\* s.lstrip(chars): leading characters are removed while they are among
\* the characters of chars
RECURSIVE Lstrip(_, _)
Lstrip(s, chars) ==
    IF s # <<>> /\ Head(s) \in Range(chars)
    THEN Lstrip(Tail(s), chars)
    ELSE s

\* line 109: edge_name = node_name + "-" + end_name
EdgeName(e) == label[e[1]] \o <<"-">> \o label[e[2]]

\* lines 129-130: out-{edge_name} on the node, in-{edge_name} on the end
PortName(port) ==
    (IF port[1] = "out" THEN <<"o", "u", "t", "-">> ELSE <<"i", "n", "-">>)
       \o EdgeName(port[2])

\* line 135: qsource-{edge_name}
SourceName(e) == <<"q", "s", "o", "u", "r", "c", "e", "-">> \o EdgeName(e)

(***************************************************************************)
(* create_bipartite_network                                                *)
(***************************************************************************)
\* a memory of one position per edge
MemSizeOfSingle(g, n) == Len(g[n])

\* line 78: mem_size = len(node_connections) * 2
MemSizeOf(g, n) == Len(g[n]) * 2

\* lines 104-157: mem_position starts at 0 and advances by 2 per edge;
\* qout1 of the i-th source is connected to qin{mem_position}
SourceWiring(g, u) ==
    [e \in Range(OutEdges(g, u)) |-> 2 * (IndexOf(OutEdges(g, u), e) - 1)]

\* lines 123-131: add_connection creates port out-u-v on u and in-u-v on v
AddPorts(p, g, u) ==
    [n \in Nodes |->
        IF n = u
        THEN p[n] \o [i \in 1..Len(g[u]) |-> <<"out", <<u, g[u][i]>>>>]
        ELSE IF n \in Range(g[u])
             THEN Append(p[n], <<"in", <<u, n>>>>)
             ELSE p[n]]

\* line 165: "out" in port.name
IsInPort(port) == ~Contains(PortName(port), OutWord)

\* lines 163-166: the ports of the node that are not skipped, in order
InPortsOf(nodePorts) == SelectSeq(nodePorts, IsInPort)

\* line 176: mem_position starts at 1 and advances by 2 per forwarded port
ForwardSlot(j) == 2 * j - 1

\* line 174: qmemory.ports[f"qin{mem_position}"] exists for
\* mem_position < num_positions only
PortExists(size, pos) == pos >= 0 /\ pos < size

\* lines 163-176 for one node: the ports forwarded before the loop ends or
\* raises on a missing memory port
ForwardWiring(nodePorts, size) ==
    LET ins == InPortsOf(nodePorts)
        ok  == {j \in 1..Len(ins) :
                   \A i \in 1..j : PortExists(size, ForwardSlot(i))}
    IN  [e \in {ins[j][2] : j \in ok} |->
            ForwardSlot(CHOOSE j \in ok : ins[j][2] = e)]

ForwardFails(nodePorts, size) ==
    \E j \in 1..Len(InPortsOf(nodePorts)) : ~PortExists(size, ForwardSlot(j))

RECURSIVE PortsAfter(_, _)
PortsAfter(g, n) ==
    IF n = 0 THEN [m \in Nodes |-> <<>>]
    ELSE AddPorts(PortsAfter(g, n - 1), g, n)

EmptyFun == [x \in {} |-> 0]

RECURSIVE MergeAll(_, _)
MergeAll(f, n) == IF n = 0 THEN EmptyFun ELSE f[n] @@ MergeAll(f, n - 1)

BuiltLocal(g) == MergeAll([u \in Nodes |-> SourceWiring(g, u)], NumNodes)

BuiltFwd(g) ==
    MergeAll([v \in Nodes |->
                 ForwardWiring(PortsAfter(g, NumNodes)[v], MemSizeOf(g, v))],
             NumNodes)

\* the graphs on which create_bipartite_network returns a network
Buildable(g) ==
    \A v \in Nodes :
        ~ForwardFails(PortsAfter(g, NumNodes)[v], MemSizeOf(g, v))

VARIABLES graph, bstage, bnode, memsize, ports, localWire, fwdWire,
          mem, clock,
          isMulti, pcStats, edges, recievers, run, lost_qubits, min_time,
          mean_time, mean_fidelity, loss_rate, fvals, rateVals, rows, halts,
          lastQubits, lastFrom, lastCounted, diag, ket,
          plan, busy, turn,
          pc, trig, chan, got, trigRound, resolved, delivered, signals,
          trigMemUsed, lastFused, lastFidelity

netVars == <<graph, label, bstage, bnode, memsize, ports, localWire, fwdWire>>

statVars == <<isMulti, pcStats, edges, recievers, run, lost_qubits, min_time,
              mean_time, mean_fidelity, loss_rate, fvals, rateVals, rows,
              halts, lastQubits, lastFrom, lastCounted, diag, ket>>

envVars == <<plan, busy, turn>>

protoVars == <<pc, trig, chan, got, trigRound, resolved, delivered, signals,
               trigMemUsed, lastFused, lastFidelity>>

vars == <<netVars, mem, clock, statVars, envVars, protoVars>>

(***************************************************************************)
(* Quantum memories.  A qubit is <<u, v, r>>: a half of the pair emitted   *)
(* by qsource-u-v in trigger round r, carrying the "edge" label u-v.       *)
(***************************************************************************)
NoQubit == <<>>

EmptyMemory(size) == [p \in 0..(size - 1) |-> NoQubit]

Positions(mn) == [i \in 1..Cardinality(DOMAIN mn) |-> i - 1]

\* qmemory.used_positions
UsedPositions(mn) == SelectSeq(Positions(mn), LAMBDA p : mn[p] # NoQubit)

\* qmemory.get_matching_qubits("edge", value=edge): the positions whose
\* qubit carries the edge name as its "edge" label
MatchingQubits(mn, edge) ==
    SelectSeq(Positions(mn),
              LAMBDA p : /\ mn[p] # NoQubit
                         /\ EdgeName(<<mn[p][1], mn[p][2]>>) = edge)

\* qmemory.peek(positions): the qubit of each position, None for an empty one
Peek(mn, pos) == [i \in 1..Len(pos) |-> mn[pos[i]]]

(***************************************************************************)
(* fidelity_from_node and log_entanglement_rate                            *)
(***************************************************************************)
\* x[0] = 1 is never assigned
gen_GHZ_ket_top(n) ==
    LET k  == 2 ^ n
        x0 == [i \in 0..(k - 1) |-> 0]
        x1 == [x0 EXCEPT ![k - 1] = 1]
    IN  [n |-> n, x |-> x1, sq |-> 2]

\* lines 37-41: gen_GHZ_ket(n).  The column vector x / np.sqrt(2) is the
\* record of n, the entries of x and the square of the divisor.
gen_GHZ_ket(n) ==
    LET k  == 2 ^ n
        x0 == [i \in 0..(k - 1) |-> 0]
        x1 == [x0 EXCEPT ![k - 1] = 1]
        x2 == [x1 EXCEPT ![0] = 1]
    IN  [n |-> n, x |-> x2, sq |-> 2]

\* a fraction num/den is the pair <<num, den>>
Frac(num, den) == <<num, den>>

\* the last value in place of the mean
MeanOfLast(s) == Frac(s[Len(s)], 1)

\* np.mean(vals)
MeanOf(s) == Frac(SumSeq(s), Len(s))

\* lines 172-183: np.mean(vals[1:] - vals[0:-1])
MeanDiff(vals) ==
    MeanOf([i \in 1..(Len(vals) - 1) |-> vals[i + 1] - vals[i]])

\* Python truth value
\* of a fraction or None
Truthy(opt) == opt # None /\ opt[1][1] # 0

\* of an integer or None
TruthyNum(opt) == opt # None /\ opt[1] # 0

IsZero(optfrac) == optfrac # None /\ optfrac[1][1] = 0

\* min_time/mean_time with mean_time a numpy float: a zero divisor gives
\* inf or nan, not an exception
Divide(x, frac) ==
    IF frac[1] = 0
    THEN IF x = 0 THEN <<"nan", 0, 0>> ELSE <<"inf", 0, 0>>
    ELSE <<"ok", x * frac[2], frac[1]>>

\* line 59: source.subcomponents.keys(), in the order the builder added
\* them: the memory, then one source per edge
Subcomponents(g, n) ==
    <<<<"q", "m", "e", "m", "o", "r", "y">>>>
       \o [i \in 1..Len(g[n]) |-> SourceName(OutEdges(g, n)[i])]

\* line 60: "qsource" in name
IsSourceName(name) == Contains(name, <<"q", "s", "o", "u", "r", "c", "e">>)

\* line 58: name.lstrip("qsource-")
EdgeOfSourceName(name) ==
    Lstrip(name, <<"q", "s", "o", "u", "r", "c", "e", "-">>)

\* lines 57-61: the edge names of the source
EdgesOfSource(g) ==
    LET names == SelectSeq(Subcomponents(g, Source), IsSourceName)
    IN  [i \in DOMAIN names |-> EdgeOfSourceName(names[i])]

\* edge.split("-")[-1]: what follows the last "-" of s
LastSegment(s) ==
    LET dashes == {i \in DOMAIN s : s[i] = "-"}
        from   == IF dashes = {} THEN 1
                  ELSE (CHOOSE i \in dashes : \A j \in dashes : j <= i) + 1
    IN  SubSeq(s, from, Len(s))

\* line 62: {edge.split("-")[-1]: edge for edge in edges}; a later edge
\* replaces an earlier one of the same key
ReceiversOf(es) ==
    [v \in {LastSegment(es[i]) : i \in DOMAIN es} |->
        es[CHOOSE i \in DOMAIN es :
              /\ LastSegment(es[i]) = v
              /\ \A j \in DOMAIN es : LastSegment(es[j]) = v => j <= i]]

\* lines 84-95: one node of a multipartite network
CollectMulti(acc, n, m) ==
    IF n = Source
    THEN [acc EXCEPT !.qubits = @ \o Peek(m[n], <<0>>),
                     !.from = Append(@, n),
                     !.qmems = @ \cup {n}]
    ELSE IF UsedPositions(m[n]) = <<>>
         THEN [acc EXCEPT !.lost = @ + 1]
         ELSE [acc EXCEPT !.qubits = @ \o Peek(m[n], UsedPositions(m[n])),
                          !.from = @ \o [i \in DOMAIN UsedPositions(m[n]) |-> n],
                          !.qmems = @ \cup {n}]

\* lines 97-101: the source of a bipartite network
CollectSource(acc, n, m) ==
    IF n = Source
    THEN [acc EXCEPT !.qubits = @ \o Peek(m[n], <<0>>),
                     !.from = Append(@, n),
                     !.qmems = @ \cup {n}]
    ELSE acc

\* lines 103-111: a receiver of a bipartite network
CollectReceiver(acc, n, m, recv) ==
    IF label[n] \in DOMAIN recv
    THEN [acc EXCEPT
             !.lost = IF MatchingQubits(m[n], recv[label[n]]) = <<>>
                      THEN @ + 1 ELSE @,
             !.qubits = @ \o Peek(m[n], MatchingQubits(m[n], recv[label[n]])),
             !.from = @ \o [i \in DOMAIN MatchingQubits(m[n], recv[label[n]])
                               |-> n],
             !.qmems = @ \cup {n}]
    ELSE acc

\* lines 83-111: the loop over network.nodes.values()
RECURSIVE Collect(_, _, _, _, _)
Collect(n, m, multi, recv, lost) ==
    IF n = 0
    THEN [qubits |-> <<>>, from |-> <<>>, qmems |-> {}, lost |-> lost]
    ELSE LET acc == Collect(n - 1, m, multi, recv, lost)
         IN  IF multi
             THEN CollectMulti(acc, n, m)
             ELSE CollectReceiver(CollectSource(acc, n, m), n, m, recv)

\* line 115: the round is counted
Counted(lq, le, multi) == ~(lq - le # 1 /\ ~multi)

\* the interval is taken again in every round after the second
MinTimeLatest(r, mt, now) ==
    IF r = 0 THEN mt
    ELSE IF r = 1 THEN Some(now)
    ELSE Some(now - mt[1])

\* lines 74-78
MinTimeAt(r, mt, now) ==
    IF r = 1 THEN Some(now)
    ELSE IF r = 2 THEN Some(now - mt[1])
    ELSE mt

\* line 135, lines 165-183: next(rate); the first call runs the generator
\* to its first, bare yield
RateValsNext(rv, now) == IF rv = None THEN Some(<<now>>) ELSE Some(Append(rv[1], now))

RateNext(rv, now) ==
    IF rv = None THEN None ELSE Some(MeanDiff(Append(rv[1], now)))

\* lines 140-145
RateDiag(mt, mean) ==
    IF IsZero(mean) THEN {"rate_infinite"}
    ELSE IF TruthyNum(mt) /\ Truthy(mean) THEN {"rate"}
    ELSE {}

\* line 154
BudgetReached(r) == r >= Budget

\* no memory is reset
ResetNothing(m, qmems) == m

\* lines 149-150
ResetMemories(m, qmems) ==
    [n \in DOMAIN m |->
        IF n \in qmems THEN EmptyMemory(Cardinality(DOMAIN m[n])) ELSE m[n]]

\* lines 52-66: the first resume runs the generator to its first yield
StatsPrime ==
    /\ pcStats = "new"
    /\ pcStats' = "ready"
    /\ edges' = EdgesOfSource(graph)
    /\ recievers' = ReceiversOf(EdgesOfSource(graph))
    /\ run' = 0
    /\ lost_qubits' = 0
    /\ min_time' = None
    /\ mean_time' = None
    /\ mean_fidelity' = None
    /\ loss_rate' = None
    /\ UNCHANGED <<isMulti, fvals, rateVals, rows, halts, lastQubits,
                   lastFrom, lastCounted, diag, ket, mem, clock>>

\* lines 73-163: one resume of the generator, from the top of the loop to
\* the yield; fid is the value fidelity() returns if it is called
StatsRound(fid) ==
    LET mt    == MinTimeAt(run, min_time, clock)
        r     == run + 1
        col   == Collect(NumNodes, mem, isMulti, recievers, lost_qubits)
        qs    == col.qubits
        cnt   == Counted(Len(qs), Len(edges), isMulti)
        holes == \E i \in DOMAIN qs : qs[i] = NoQubit
        mean  == IF cnt THEN RateNext(rateVals, clock) ELSE mean_time
        \* fidelity() on a counted round and discard() on every round
        \* raise on a None among the qubits
        raise1 == holes
        \* line 159 raises TypeError when mean_time is None
        raise2 == BudgetReached(r) /\ mean = None
    IN  /\ pcStats = "ready"
        /\ run' = r
        /\ min_time' = mt
        /\ lost_qubits' = col.lost
        /\ lastQubits' = qs
        /\ lastFrom' = col.from
        /\ lastCounted' = cnt
        /\ ket' = IF cnt THEN Some(gen_GHZ_ket(Len(qs))) ELSE ket
        /\ IF cnt /\ ~holes
           THEN /\ fvals' = Append(fvals, fid)
                /\ mean_fidelity' = Some(MeanOf(Append(fvals, fid)))
                /\ loss_rate' =
                      Some(Frac(col.lost, r * (Cardinality(DOMAIN recievers) + 1)))
                /\ rateVals' = RateValsNext(rateVals, clock)
                /\ mean_time' = mean
                /\ diag' = RateDiag(mt, mean)
           ELSE /\ diag' = IF cnt THEN {} ELSE {"lost"}
                /\ UNCHANGED <<fvals, mean_fidelity, loss_rate, rateVals,
                               mean_time>>
        /\ mem' = IF cnt /\ holes THEN mem ELSE ResetMemories(mem, col.qmems)
        /\ IF raise1 \/ raise2
           THEN pcStats' = "failed" /\ UNCHANGED <<rows, halts>>
           ELSE IF BudgetReached(r)
           THEN /\ rows' = Append(rows, <<r, mean_fidelity', loss_rate', mt,
                                          mean, Divide(mt[1], mean[1])>>)
                /\ halts' = halts + 1
                /\ pcStats' = "ready"
           ELSE pcStats' = "ready" /\ UNCHANGED <<rows, halts>>
        /\ UNCHANGED <<isMulti, edges, recievers, clock>>

(***************************************************************************)
(* create_bipartite_network, step by step                                  *)
(***************************************************************************)
StatsIdle ==
    /\ pcStats = "new"
    /\ edges = <<>>
    /\ recievers = EmptyFun
    /\ run = 0
    /\ lost_qubits = 0
    /\ min_time = None
    /\ mean_time = None
    /\ mean_fidelity = None
    /\ loss_rate = None
    /\ fvals = <<>>
    /\ rateVals = None
    /\ rows = <<>>
    /\ halts = 0
    /\ lastQubits = <<>>
    /\ lastFrom = <<>>
    /\ lastCounted = FALSE
    /\ diag = {}
    /\ ket = None

\* no protocol has been started
ProtoIdle ==
    /\ pc = [n \in Nodes |-> "start"]
    /\ trig = {}
    /\ chan = EmptyFun
    /\ got = [n \in Nodes |-> {}]
    /\ trigRound = [n \in Nodes |-> 0]
    /\ resolved = [n \in Nodes |-> 0]
    /\ delivered = [n \in Nodes |-> EmptyFun]
    /\ signals = 0
    /\ trigMemUsed = [n \in Nodes |-> {}]
    /\ lastFused = [n \in Nodes |-> {}]
    /\ lastFidelity = [n \in Nodes |-> {}]

\* lines 45-64: the nodes exist, nothing is attached to them yet
InitNet ==
    /\ graph \in AllGraphs
    /\ label \in Labelings
    /\ bstage = "memory"
    /\ bnode = 1
    /\ memsize = EmptyFun
    /\ ports = [n \in Nodes |-> <<>>]
    /\ localWire = EmptyFun
    /\ fwdWire = EmptyFun
    /\ mem = EmptyFun
    /\ clock = 0
    /\ isMulti = FALSE
    /\ StatsIdle
    /\ ProtoIdle
    /\ plan = "free"
    /\ busy = FALSE
    /\ turn = "env"

NextNode(stage, after) ==
    IF bnode < NumNodes
    THEN bstage' = stage /\ bnode' = bnode + 1
    ELSE bstage' = after /\ bnode' = 1

\* lines 68-89: one iteration of the memory loop
AddMemory ==
    /\ bstage = "memory"
    /\ memsize' = (bnode :> MemSizeOf(graph, bnode)) @@ memsize
    /\ mem' = (bnode :> EmptyMemory(MemSizeOf(graph, bnode))) @@ mem
    /\ NextNode("memory", "sources")
    /\ UNCHANGED <<graph, label, ports, localWire, fwdWire, clock, statVars,
                   envVars, protoVars>>

\* lines 94-157: one iteration of the connection loop
AddSources ==
    /\ bstage = "sources"
    /\ ports' = AddPorts(ports, graph, bnode)
    /\ localWire' = SourceWiring(graph, bnode) @@ localWire
    /\ NextNode("sources", "forward")
    /\ UNCHANGED <<graph, label, memsize, fwdWire, mem, clock, statVars,
                   envVars, protoVars>>

\* lines 161-178: one iteration of the forwarding loop
ForwardInputs ==
    /\ bstage = "forward"
    /\ fwdWire' = ForwardWiring(ports[bnode], memsize[bnode]) @@ fwdWire
    /\ IF ForwardFails(ports[bnode], memsize[bnode])
       THEN bstage' = "KeyError" /\ bnode' = bnode
       ELSE NextNode("forward", "done")
    /\ UNCHANGED <<graph, label, memsize, ports, localWire, mem, clock,
                   statVars, envVars, protoVars>>

NextNet == AddMemory \/ AddSources \/ ForwardInputs

SpecNet == InitNet /\ [][NextNet]_vars

(***************************************************************************)
(* The statistics generator, resumed once per round                        *)
(***************************************************************************)
\* the network create_bipartite_network returns for g
Built(g) ==
    /\ graph = g
    /\ bstage = "done"
    /\ bnode = 1
    /\ memsize = [n \in Nodes |-> MemSizeOf(g, n)]
    /\ ports = PortsAfter(g, NumNodes)
    /\ localWire = BuiltLocal(g)
    /\ fwdWire = BuiltFwd(g)
    /\ mem = [n \in Nodes |-> EmptyMemory(MemSizeOf(g, n))]

Star == [n \in Nodes |->
            IF n = 1 THEN [i \in 1..(NumNodes - 1) |-> i + 1] ELSE <<1>>]

Chain == [n \in Nodes |->
             IF n = 1 THEN <<2>>
             ELSE IF n = NumNodes THEN <<n - 1>> ELSE <<n - 1, n + 1>>]

\* the chain of the nodes that have edges
ShortChain == [n \in Nodes |->
                  IF n > NetNodes THEN <<>>
                  ELSE IF n = 1 THEN <<2>>
                  ELSE IF n = NetNodes THEN <<n - 1>> ELSE <<n - 1, n + 1>>]

\* node 1 linked to nodes 2 and 3, the further nodes chained to node 3
Fork == [n \in Nodes |->
            IF n > NetNodes THEN <<>>
            ELSE IF n = 1 THEN <<2, 3>>
            ELSE IF n = 2 THEN <<1>>
            ELSE IF n = 3 THEN (IF NetNodes > 3 THEN <<1, 4>> ELSE <<1>>)
            ELSE IF n = NetNodes THEN <<n - 1>> ELSE <<n - 1, n + 1>>]

Topologies == {Star, Chain}

\* node 1 and node 2 linked, the further nodes without an edge
Pair == [n \in Nodes |-> IF n = 1 THEN <<2>> ELSE IF n = 2 THEN <<1>> ELSE <<>>]

ProtoTopologies == {Fork, ShortChain, Pair}

Plans == {"free", "never", "always", "butfirst", "still"}

FidelityValues == {0, 1}

EdgeSet(g) == UNION {Range(OutEdges(g, u)) : u \in Nodes}

EdgesFrom(g, B) == UNION {Range(OutEdges(g, u)) : u \in B}

AllButLast(s) == {s[i] : i \in 1..(Len(s) - 1)}

\* the last k edges of the source
LastEdges(k) ==
    {OutEdges(graph, Source)[i] :
        i \in (Len(graph[Source]) - k + 1)..Len(graph[Source])}

\* what a round of the simulation leaves in the memories: the nodes of B
\* triggered their sources, the far halves of the edges of A have arrived
Fill(m, A, B, r) ==
    [n \in Nodes |->
        [p \in DOMAIN m[n] |->
            IF \E e \in EdgesFrom(graph, B \cap {n}) : localWire[e] = p
            THEN LET e == CHOOSE e \in EdgesFrom(graph, {n}) : localWire[e] = p
                 IN  <<e[1], e[2], r>>
            ELSE IF \E e \in A : e[2] = n /\ fwdWire[e] = p
            THEN LET e == CHOOSE e \in A : e[2] = n /\ fwdWire[e] = p
                 IN  <<e[1], e[2], r>>
            ELSE m[n][p]]]

Planned(A, B, dt) ==
    LET all == Range(OutEdges(graph, Source))
        cut == AllButLast(OutEdges(graph, Source))
    IN  CASE plan = "free" -> run < MaxFree
          [] plan = "never" -> B = {Source} /\ A = all /\ dt = 1
          [] plan = "always" -> B = {Source} /\ A = cut /\ dt = 1
          [] plan = "butfirst" ->
                B = {Source} /\ A = (IF run = 0 THEN all ELSE cut) /\ dt = 1
          [] plan = "still" -> B = {Source} /\ A = all /\ dt = 0

\* the simulation between two resumes of the generator: the source has
\* triggered its sources, the far halves of its last k edges have not
\* arrived; in a busy run every other node runs as a source too
Deliver ==
    /\ turn = "env"
    /\ pcStats = "ready"
    /\ run < Budget + MaxOver
    /\ \E k \in 0..Len(graph[Source]), dt \in 0..1 :
          LET B == IF busy THEN Nodes ELSE {Source}
              A == EdgesFrom(graph, B) \ LastEdges(k)
          IN  /\ Planned(A, B, dt)
              /\ mem' = Fill(mem, A, B, run + 1)
              /\ clock' = clock + dt
    /\ turn' = "stats"
    /\ UNCHANGED <<netVars, statVars, plan, busy, protoVars>>

Prime ==
    /\ StatsPrime
    /\ UNCHANGED <<netVars, envVars, protoVars>>

Resume ==
    /\ turn = "stats"
    /\ \E fid \in FidelityValues :
          /\ plan # "free" => fid = 1
          /\ StatsRound(fid)
    /\ turn' = "env"
    /\ UNCHANGED <<netVars, plan, busy, protoVars>>

Init ==
    /\ label \in Labelings
    /\ \E g \in Topologies : Built(g)
    /\ clock = 0
    /\ isMulti \in BOOLEAN
    /\ StatsIdle
    /\ ProtoIdle
    /\ plan \in Plans
    /\ busy \in BOOLEAN
    /\ plan # "free" => (busy = FALSE /\ label = IntNames)
    /\ turn = "env"

Next == Prime \/ Deliver \/ Resume

Spec == Init /\ [][Next]_vars

(***************************************************************************)
(* BipartiteProtocol on the nodes of a built network                       *)
(***************************************************************************)
\* lines 48-52: the odd-numbered qin ports of the memory
InputPorts(size) == {p \in 0..(size - 1) : p % 2 = 1}

\* lines 54-59: the even-numbered qin ports of the memory
SourceMem(size) == {p \in 0..(size - 1) : p % 2 = 0}

\* lines 61-63: the ports of the node with "out" in their name
OutputPorts(nodePorts) ==
    SelectSeq(nodePorts, LAMBDA port : Contains(PortName(port), OutWord))

\* line 89: edge = port.name.lstrip("out-")
EdgeOfPort(port) == Lstrip(PortName(port), <<"o", "u", "t", "-">>)

\* lines 87-92: the source names of the trigger loop, in order
TriggerNames(n) ==
    [i \in DOMAIN OutputPorts(ports[n]) |->
        <<"q", "s", "o", "u", "r", "c", "e", "-">>
           \o EdgeOfPort(OutputPorts(ports[n])[i])]

\* the qsource subcomponents of the node, by name
SourcesOf(n) == {SourceName(e) : e \in Range(OutEdges(graph, n))}

\* line 93: node.subcomponents[source_name] raises KeyError
TriggerFails(n) == \E i \in DOMAIN TriggerNames(n) : TriggerNames(n)[i] \notin SourcesOf(n)

\* line 93: the sources triggered before the loop ends or raises
Triggered(n) ==
    {e \in Range(OutEdges(graph, n)) :
        \E i \in DOMAIN TriggerNames(n) :
           /\ TriggerNames(n)[i] = SourceName(e)
           /\ \A j \in 1..i : TriggerNames(n)[j] \in SourcesOf(n)}

\* line 65: the source flag the protocol was constructed with
IsSource(n) == n = Source \/ busy

\* the source_mem ports combined with operator.or_
AndBarrierAny(waited, arrived) == waited \cap arrived # {}

\* lines 96-100: reduce(operator.and_, ...) over the source_mem ports
AndBarrier(waited, arrived) == waited \subseteq arrived

\* the input ports combined with operator.and_
OrBarrierAll(waited, arrived) == waited \subseteq arrived

\* lines 123-130: reduce(operator.or_, ...) over the input ports
OrBarrier(waited, arrived) == waited \cap arrived # {}

UsedSet(mn) == {p \in DOMAIN mn : mn[p] # NoQubit}

\* lines 104-106
BellQubits(mn) == {p \in UsedSet(mn) : p % 2 = 0}

\* lines 111-114
FidelityQubits(mn) == UsedSet(mn)

\* lines 96-100, 123-130: the ports whose input the node waits for;
\* reduce() of an empty list raises TypeError
WaitsOn(n) ==
    IF IsSource(n) THEN SourceMem(memsize[n]) ELSE InputPorts(memsize[n])

\* lines 86-100: trigger the source of every out port, then wait
TriggerAndWait(n) ==
    /\ trig' = trig \cup Triggered(n)
    /\ trigRound' = [trigRound EXCEPT ![n] = @ + 1]
    /\ trigMemUsed' = [trigMemUsed EXCEPT ![n] = UsedSet(mem[n])]
    /\ got' = [got EXCEPT ![n] = {}]

\* lines 76-100 and 121-130: run() from its start to its first yield
ProtoStart(n) ==
    /\ pc[n] = "start"
    /\ pc' = [pc EXCEPT ![n] =
                 IF IsSource(n) /\ TriggerFails(n) THEN "KeyError"
                 ELSE IF WaitsOn(n) = {} THEN "TypeError"
                 ELSE "await"]
    /\ IF IsSource(n)
       THEN TriggerAndWait(n)
       ELSE UNCHANGED <<trig, trigRound, trigMemUsed, got>>
    /\ UNCHANGED <<netVars, mem, clock, statVars, envVars, chan, resolved,
                   delivered, signals, lastFused, lastFidelity>>

\* every protocol and the generator are started before the simulation runs
Started == pcStats # "new" /\ \A n \in Nodes : pc[n] # "start"

\* a triggered source emits its pair: qout1 into the memory position it
\* is connected to, qout0 into the channel of the edge
Emit(e) ==
    /\ Started
    /\ e \in trig
    /\ trig' = trig \ {e}
    /\ mem' = [mem EXCEPT ![e[1]][localWire[e]] = <<e[1], e[2], trigRound[e[1]]>>]
    /\ chan' = [chan EXCEPT ![e] = Append(@, <<e[1], e[2], trigRound[e[1]]>>)]
    /\ delivered' = [delivered EXCEPT ![e[1]][localWire[e]] = @ + 1]
    /\ got' = [got EXCEPT ![e[1]] =
                  IF pc[e[1]] = "await" THEN @ \cup {localWire[e]} ELSE @]
    /\ UNCHANGED <<netVars, clock, statVars, envVars, pc, trigRound, resolved,
                   signals, trigMemUsed, lastFused, lastFidelity>>

\* the channel of e delivers its oldest qubit, after its fibre delay, to
\* the memory position the in port of e is forwarded to
Arrive(e) ==
    /\ e \in DOMAIN chan
    /\ chan[e] # <<>>
    /\ chan' = [chan EXCEPT ![e] = Tail(@)]
    /\ mem' = [mem EXCEPT ![e[2]][fwdWire[e]] = Head(chan[e])]
    /\ delivered' = [delivered EXCEPT ![e[2]][fwdWire[e]] = @ + 1]
    /\ got' = [got EXCEPT ![e[2]] =
                  IF pc[e[2]] = "await" THEN @ \cup {fwdWire[e]} ELSE @]
    /\ clock' = clock + 1
    /\ UNCHANGED <<netVars, statVars, envVars, pc, trig, trigRound, resolved,
                   signals, trigMemUsed, lastFused, lastFidelity>>

\* the rounds explored of a node: the further sources of a network stay
\* one round behind the source the statistics are taken from
RoundCap(n) == IF n = Source THEN MaxProtoRounds ELSE MaxProtoRounds - 1

\* lines 100-119 and 82-100: a source resumes from its yield, fuses,
\* signals, and goes round the loop to its next yield
SourceResume(n) ==
    /\ IsSource(n)
    /\ pc[n] = "await"
    /\ resolved[n] < RoundCap(n)
    /\ AndBarrier(SourceMem(memsize[n]), got[n])
    /\ resolved' = [resolved EXCEPT ![n] = @ + 1]
    /\ lastFused' = [lastFused EXCEPT ![n] = BellQubits(mem[n])]
    /\ lastFidelity' = [lastFidelity EXCEPT ![n] = FidelityQubits(mem[n])]
    /\ IF FidelityQubits(mem[n]) = {}
       THEN \* fidelity() of no qubit raises
            /\ pc' = [pc EXCEPT ![n] = "failed"]
            /\ UNCHANGED <<trig, trigRound, trigMemUsed, got, signals>>
       ELSE /\ signals' = IF n = Source THEN signals + 1 ELSE signals
            /\ TriggerAndWait(n)
            /\ pc' = [pc EXCEPT ![n] =
                         IF TriggerFails(n) THEN "KeyError" ELSE @]
    /\ UNCHANGED <<netVars, mem, clock, statVars, envVars, chan, delivered>>

\* lines 130-137 and 121-130: a receiver resumes from its yield and goes
\* round the loop to the same yield
ReceiverResume(n) ==
    /\ ~IsSource(n)
    /\ pc[n] = "await"
    /\ OrBarrier(InputPorts(memsize[n]), got[n])
    /\ got' = [got EXCEPT ![n] = {}]
    /\ UNCHANGED <<netVars, mem, clock, statVars, envVars, pc, trig, chan,
                   trigRound, resolved, delivered, signals, trigMemUsed,
                   lastFused, lastFidelity>>

\* the generator is resumed once for every SUCCESS signal of the source
SignalPending == signals > 0

StatsDrive ==
    /\ SignalPending
    /\ signals' = signals - 1
    /\ StatsRound(1)
    /\ UNCHANGED <<netVars, envVars, pc, trig, chan, got, trigRound, resolved,
                   delivered, trigMemUsed, lastFused, lastFidelity>>

InitProto ==
    /\ label \in Labelings
    /\ \E g \in ProtoTopologies : Built(g)
    /\ clock = 0
    /\ isMulti = FALSE
    /\ StatsIdle
    /\ pc = [n \in Nodes |-> "start"]
    /\ trig = {}
    /\ chan = [e \in EdgeSet(graph) |-> <<>>]
    /\ got = [n \in Nodes |-> {}]
    /\ trigRound = [n \in Nodes |-> 0]
    /\ resolved = [n \in Nodes |-> 0]
    /\ delivered = [n \in Nodes |-> [p \in 0..(memsize[n] - 1) |-> 0]]
    /\ signals = 0
    /\ trigMemUsed = [n \in Nodes |-> {}]
    /\ lastFused = [n \in Nodes |-> {}]
    /\ lastFidelity = [n \in Nodes |-> {}]
    /\ plan = "free"
    /\ busy = (graph = Pair)
    /\ busy => label = IntNames
    /\ turn = "env"

NextProto ==
    \/ Prime
    \/ StatsDrive
    \/ \E n \in Nodes : ProtoStart(n)
    \/ \E e \in EdgeSet(graph) : Emit(e)
    \/ \E e \in EdgeSet(graph) : Arrive(e)
    \/ \E n \in Nodes : SourceResume(n)
    \/ \E n \in Nodes : ReceiverResume(n)

SpecProto == InitProto /\ [][NextProto]_vars

(***************************************************************************)
(* Properties                                                              *)
(***************************************************************************)
\* the generator has completed a round and is suspended at its yield
RoundEnded == run >= 1 /\ turn = "env"

Expected == Cardinality(DOMAIN recievers) + 1

Count(seq, x) == Cardinality({i \in DOMAIN seq : seq[i] = x})

\* C1: a source's barrier has resolved r times only if every one of its
\* even-numbered memory inputs has received a qubit at least r times, one
\* per trigger round; SUCCESS signals never outnumber the resolutions.
C1_AndBarrierWaitsForAll ==
    /\ \A n \in Nodes :
          IsSource(n) =>
             \A p \in SourceMem(memsize[n]) :
                /\ resolved[n] <= delivered[n][p]
                /\ delivered[n][p] <= trigRound[n]
    /\ signals + run <= resolved[Source]

\* a source with two outgoing edges has resolved its barrier twice
C1_Witness ==
    /\ Cardinality(SourceMem(memsize[Source])) >= 2
    /\ resolved[Source] = 2
    /\ signals + run = 2

\* C2: the round in which run reaches the budget persists the row and
\* signals the halt, and no earlier round does.
C2_RowAtBudget ==
    /\ run < Budget => rows = <<>> /\ halts = 0
    /\ (run = Budget /\ turn = "env") => Len(rows) = 1 /\ halts = 1

\* C3: no resume of the generator fails, whatever was lost and whatever
\* the clock read.
C3_RoundLoopNeverFails == pcStats # "failed"

\* C4: a round whose qubit count differs from the expected participant
\* count records a loss, appends no fidelity and leaves mean_fidelity
\* alone, in either branch.
C4_MismatchSkipsFidelity ==
    [][(run' = run + 1 /\ Len(lastQubits') # Len(edges) + 1) =>
          /\ lost_qubits' > lost_qubits
          /\ fvals' = fvals
          /\ mean_fidelity' = mean_fidelity]_vars

\* C5: a source issues triggers only into an empty memory, and round r + 1
\* is triggered only after the generator has cleaned up round r.
C5_RoundsNeverOverlap ==
    /\ trigMemUsed[Source] = {}
    /\ trigRound[Source] <= run + 1

\* C6: every memory has 2 x degree positions and the i-th source of a node
\* (i = 0, 1, ...) feeds position 2i: even, inside the memory, and used
\* by no other source of the node.
C6_LocalSlots ==
    /\ \A n \in DOMAIN memsize :
          /\ memsize[n] = 2 * Len(graph[n])
          /\ DOMAIN mem[n] = 0..(2 * Len(graph[n]) - 1)
    /\ \A e \in DOMAIN localWire :
          /\ \E i \in 1..Len(graph[e[1]]) :
                graph[e[1]][i] = e[2] /\ localWire[e] = 2 * (i - 1)
          /\ localWire[e] % 2 = 0
          /\ localWire[e] < memsize[e[1]]
          /\ \A f \in DOMAIN localWire :
                (f # e /\ f[1] = e[1]) => localWire[f] # localWire[e]
    /\ bstage \in {"forward", "done", "KeyError"} =>
          DOMAIN localWire = EdgeSet(graph) /\ DOMAIN memsize = Nodes

\* the network of a graph in which some node has two or more edges
C6_Witness ==
    /\ bstage = "done"
    /\ \E n \in Nodes : Len(graph[n]) >= 2
    /\ DOMAIN localWire = EdgeSet(graph)

\* C7: the builder never fails on a graph, and in the network it returns
\* every edge (u, v) is forwarded to an odd position of v that exists and
\* that no other edge into v is forwarded to.
C7_EveryEdgeForwarded ==
    /\ bstage # "KeyError"
    /\ bstage = "done" =>
          \A e \in EdgeSet(graph) :
             /\ e \in DOMAIN fwdWire
             /\ fwdWire[e] % 2 = 1
             /\ fwdWire[e] < memsize[e[2]]
             /\ \A f \in EdgeSet(graph) :
                   (f # e /\ f[2] = e[2]) => fwdWire[f] # fwdWire[e]

\* C8: a counted round whose timestamp equals the previous one reports
\* the undefined rate and no rate, and no persisted rate_hz is the result
\* of a division by zero.
C8_ZeroElapsedReported ==
    /\ ( /\ RoundEnded
         /\ lastCounted
         /\ rateVals # None
         /\ Len(rateVals[1]) >= 2
         /\ rateVals[1][Len(rateVals[1])] = rateVals[1][Len(rateVals[1]) - 1] )
       => diag = {"rate_infinite"}
    /\ \A i \in DOMAIN rows : rows[i][6][1] = "ok"

\* C9: after every round loss_rate is lost_qubits / (run x participants)
\* of that round, and so is the loss_rate of a persisted row.
C9_LossRateCurrent ==
    /\ (RoundEnded /\ pcStats = "ready") =>
          loss_rate = Some(Frac(lost_qubits, run * Expected))
    /\ \A i \in DOMAIN rows :
          /\ rows[i][3] # None
          /\ rows[i][3][1][2] = rows[i][1] * Expected
          /\ rows[i][1] = run => rows[i][3][1][1] = lost_qubits

\* C10: the qubits collected in a round hold at most one qubit of each
\* receiver.
C10_OnePerReceiver ==
    \A n \in Nodes \ {Source} : Count(lastFrom, n) <= 1

\* C11: a started receiver that has odd-numbered memory inputs is always
\* suspended at its barrier, and the barrier lets it resume exactly when
\* at least one of those inputs has received a qubit since it last
\* resumed, whether or not its other inputs have received anything.
C11_ReceiverOrBarrier ==
    \A n \in Nodes :
       (~IsSource(n) /\ pc[n] # "start" /\ InputPorts(memsize[n]) # {}) =>
          /\ pc[n] = "await"
          /\ (ENABLED ReceiverResume(n)) <=>
                (got[n] \cap InputPorts(memsize[n]) # {})

\* a receiver with two inputs has resumed after an arrival at the first
\* and waits again, its second input never having received a qubit
C11_Witness ==
    \E n \in Nodes :
       /\ ~IsSource(n)
       /\ InputPorts(memsize[n]) = {1, 3}
       /\ pc[n] = "await"
       /\ delivered[n][1] >= 1
       /\ delivered[n][3] = 0
       /\ got[n] = {}

\* C12: a round that is counted appends its fidelity f and moves the mean
\* to mean + (f - mean) / n, n the number of counted rounds so far; a
\* round that is not counted leaves the history and the mean alone; so
\* the mean is the arithmetic mean of the counted rounds' values.
C12_MeanFidelityIsMean ==
    [][run' = run + 1 =>
          IF Len(fvals') # Len(fvals)
          THEN LET n == Len(fvals')
                   f == fvals'[n]
               IN  /\ lastCounted'
                   /\ fvals' = Append(fvals, f)
                   /\ mean_fidelity' # None
                   /\ mean_fidelity'[1][2] > 0
                   /\ IF mean_fidelity = None
                      THEN n = 1 /\ mean_fidelity'[1][1] = f * mean_fidelity'[1][2]
                      ELSE \* a'/b' = a/b + (f - a/b)/n
                           mean_fidelity'[1][1] * mean_fidelity[1][2] * n =
                              mean_fidelity'[1][2] *
                                 (mean_fidelity[1][1] * n
                                  + f * mean_fidelity[1][2]
                                  - mean_fidelity[1][1])
          ELSE /\ mean_fidelity' = mean_fidelity
               /\ fvals' = fvals
               /\ lastCounted' => \E i \in DOMAIN lastQubits' :
                                     lastQubits'[i] = NoQubit]_vars

\* two counted rounds of different fidelity and a lost round: the mean is
\* one half over two values after three rounds
C12_Witness ==
    /\ RoundEnded
    /\ run = 3
    /\ Len(fvals) = 2
    /\ fvals[1] # fvals[2]
    /\ mean_fidelity = Some(Frac(1, 2))

\* C13: when a round of the generator has ended, counted or lost, every
\* memory a qubit of the round was read from is empty and no qubit the
\* round collected is left in any memory.
C13_MemoriesClean ==
    RoundEnded =>
       /\ \A n \in Range(lastFrom) : UsedSet(mem[n]) = {}
       /\ \A n \in Nodes : \A p \in DOMAIN mem[n] :
             mem[n][p] # NoQubit => mem[n][p] \notin Range(lastQubits)

\* a lost round has ended in a network where every node had filled its
\* own memory: qubits were collected from two nodes or more
C13_Witness ==
    /\ RoundEnded
    /\ busy
    /\ ~lastCounted
    /\ Cardinality(Range(lastFrom)) >= 2
    /\ \A n \in Range(lastFrom) : UsedSet(mem[n]) = {}

\* the SUCCESS signals the source has sent: those waiting for the
\* generator and those it has been resumed for
SignalsSent == signals + run

\* C14: in every round of a source the triggers are issued before the
\* barrier resolves, the fusion runs on the resolved barrier and the
\* SUCCESS signal follows it: a started source is one trigger round ahead
\* of its resolved barriers, every resolved barrier has run a fusion, and
\* the signals sent are exactly one per resolved barrier.
C14_TriggerBarrierFuseSignal ==
    /\ \A n \in Nodes :
          (IsSource(n) /\ pc[n] # "start") =>
             /\ trigRound[n] = resolved[n] + 1
             /\ resolved[n] >= 1 => lastFused[n] # {}
    /\ SignalsSent = resolved[Source]

\* C15: after every round, counted or lost, the generator has recorded one
\* clock reading per round, and from the second round on mean_time is the
\* mean of the successive differences of the readings.
C15_TimestampPerRound ==
    (RoundEnded /\ pcStats = "ready") =>
       /\ rateVals # None
       /\ Len(rateVals[1]) = run
       /\ run >= 2 => mean_time = Some(MeanDiff(rateVals[1]))

\* the sum of x[i]^2 for i in lo..hi
RECURSIVE SumSquares(_, _, _)
SumSquares(x, lo, hi) ==
    IF lo > hi THEN 0
    ELSE IF lo = hi THEN x[lo] * x[lo]
    ELSE LET mid == (lo + hi) \div 2
         IN  SumSquares(x, lo, mid) + SumSquares(x, mid + 1, hi)

\* C16: the reference ket of n >= 1 qubits has 2^n entries, non-zero at
\* index 0 and index 2^n - 1 only, the two equal, each of squared
\* amplitude 1/2, and squared norm 1.
C16_GHZKetNormalised ==
    ket # None =>
       LET n == ket[1].n
           x == ket[1].x
           k == 2 ^ n
       IN  /\ n >= 1
           /\ DOMAIN x = 0..(k - 1)
           /\ \A i \in DOMAIN x : x[i] # 0 <=> i \in {0, k - 1}
           /\ x[0] = x[k - 1]
           /\ 2 * x[0] * x[0] = ket[1].sq
           /\ SumSquares(x, 0, k - 1) = ket[1].sq

\* the reference ket of a round of three qubits or more has been computed
C16_Witness ==
    /\ ket # None
    /\ ket[1].n >= 3
    /\ lastCounted
    /\ Len(lastQubits) = ket[1].n

\* C17: a started source has issued, in every one of its trigger rounds,
\* one trigger to the source component of each of its outgoing edges and
\* to nothing else: the name it derives from each output port is the name
\* the builder registered, whatever the node identifiers are.
C17_TriggersEachSourceOnce ==
    \A n \in Nodes :
       (IsSource(n) /\ pc[n] # "start") =>
          /\ pc[n] # "KeyError"
          /\ Len(TriggerNames(n)) = Len(graph[n])
          /\ \A e \in Range(OutEdges(graph, n)) :
                Count(TriggerNames(n), SourceName(e)) = 1

\* C18: the qubits a source computes its fidelity over are the qubits it
\* has just fused, those of its occupied even-numbered positions, also
\* when odd-numbered positions hold qubits that arrived from neighbours.
C18_FidelityOverFused ==
    \A n \in Nodes :
       (IsSource(n) /\ resolved[n] >= 1) => lastFidelity[n] = lastFused[n]

\* C19: in every state of the generator the qubits counted as lost are at
\* most run x (receivers of the source + 1), so a loss_rate that is set
\* lies between 0 and 1.
C19_LossRateAtMostOne ==
    /\ pcStats # "new" => lost_qubits <= run * Expected
    /\ loss_rate # None =>
          /\ loss_rate[1][1] >= 0
          /\ loss_rate[1][1] <= loss_rate[1][2]

\* C20: over a whole run of the generator at most one row is persisted
\* and the halt is signalled at most once, also when the generator is
\* resumed after the round that reached the budget.
C20_AtMostOneRow == Len(rows) <= 1 /\ halts <= 1

\* C21: min_time is unset after the first round, is the clock reading of
\* the start of the second round after the second round, becomes the
\* clock reading of the start of the third round minus that reading in
\* the third round, and is changed by no later round; when the first
\* three rounds were counted it is the difference of the third and the
\* second recorded reading, and every persisted row carries it.
C21_MinTimeSetOnce ==
    [][run' = run + 1 =>
          /\ run = 0 => min_time' = None
          /\ run = 1 => min_time' = Some(clock)
          /\ run = 2 => min_time' = Some(clock - min_time[1])
          /\ run >= 3 => min_time' = min_time
          /\ (run' >= 3 /\ rateVals' # None /\ Len(rateVals'[1]) = run') =>
                min_time' = Some(rateVals'[1][3] - rateVals'[1][2])
          /\ \A i \in DOMAIN rows' : rows'[i][4] = min_time']_vars

\* the row of the budget round has been persisted with the interval
\* between the second and the third round, taken 247 rounds earlier
C21_Witness ==
    /\ run = Budget
    /\ Len(rows) = 1
    /\ rateVals # None
    /\ Len(rateVals[1]) = Budget
    /\ min_time = Some(rateVals[1][3] - rateVals[1][2])
    /\ rows[1][4] = min_time
    /\ min_time[1] > 0

=============================================================================
